---------------------------- MODULE Spec2Model ----------------------------
(***************************************************************************)
(* Model of the /api/players handler of roblox-playercount-proxy.          *)
(*                                                                         *)
(*   - the in-memory rate limiter (rateLimitCheck, rateLimitState) and the *)
(*     rate limiting block of the handler: src/unnamed/part_000            *)
(*   - the Redis peak tracking of the handler: src/api/players.js (the     *)
(*     same text as src/unnamed/part_000 lines 176-386)                    *)
(*   - the Vercel KV variant of the handler, which prunes:                 *)
(*     src/unnamed/part_002                                                *)
(*                                                                         *)
(* Times are epoch milliseconds, as Date.now() returns them.               *)
(***************************************************************************)
EXTENDS Integers, Sequences, FiniteSets, TLC

\* ------------------------------------------------------------ bounds

\* The clock reading when the process starts (Date.now() is never 0).
Epoch0 == 1000000
\* How many times the clock may advance in a run of the limiter alone.
MaxLimiterTicks == 4
\* How many times the clock may advance in a run of the handler.
MaxTicks == 1
\* How many invocations of the handler a run starts.
MaxRequests == 2
\* How many invocations a burst (no time passing) starts: one more than the
\* limiter admits in a window.
MaxBurst == 11

\* Client identifiers (x-forwarded-for / remoteAddress / 'unknown'): the
\* clients of a burst, and the one client the runs with time passing have.
IPs == {"a", "b"}
LimiterIPs == {"a"}
\* Invocations in flight at once.
Slots == {1, 2}
\* The counts the source reports.
Counts == {0, 5}

\* ------------------------------------------------------------ constants

TwentySeconds == 20 * 1000

RATE_LIMIT_WINDOW_MS == 10 * 1000
RATE_LIMIT_MAX_REQUESTS == 10
RATE_LIMIT_BLOCK_MS == 60 * 60 * 1000

\* blockedUntil: null. The code tests it by truthiness, which 0 fails too.
Null == 0

\* Clock advances explored for the limiter: a millisecond, just under and
\* exactly one window, and what is left of a one-hour block after a window.
LimiterTicks ==
    {1, RATE_LIMIT_WINDOW_MS - 1, RATE_LIMIT_WINDOW_MS,
     RATE_LIMIT_BLOCK_MS - RATE_LIMIT_WINDOW_MS}

VARIABLES
    now,             \* Date.now()
    ticks,           \* number of clock advances so far (bounded)
    rateLimitState,  \* Map: ip -> { count, windowStart, blockedUntil }
    rl,              \* the value the last rateLimitCheck returned, with its
                     \* argument, the clock it read and the return it took,
                     \* and per ip the time its entry was last created or
                     \* had its count incremented (history)
    step,            \* flips at every rateLimitCheck call
    admitLog,        \* per ip, the times of the admitted calls of the last
                     \* RATE_LIMIT_WINDOW_MS milliseconds (history)
    playerPeaks,     \* the store's sorted set 'playerPeaks': {score, member}
    lastSaveTimeKey, \* the store's key 'lastSaveTime' (0: absent)
    req,             \* per slot, the locals of the invocation in flight
    res,             \* the response the last step sent, if it sent one
    started,         \* number of invocations started so far (bounded)
    appended         \* the members the invocations added to the sorted set,
                     \* in the order they were added (history)

limiterVars == <<rateLimitState, rl, step, admitLog>>
storeVars == <<playerPeaks, lastSaveTimeKey, appended>>
handlerVars == <<playerPeaks, lastSaveTimeKey, req, res, started, appended>>
vars == <<now, ticks, rateLimitState, rl, step, admitLog,
          playerPeaks, lastSaveTimeKey, req, res, started, appended>>

\* ------------------------------------------------------------ the limiter

\* Math.ceil(x / 1000) for x >= 0
FloorDiv1000(x) == x \div 1000

CeilDiv1000(x) == (x + 999) \div 1000

Entry(c, ws, bu) == [count |-> c, windowStart |-> ws, blockedUntil |-> bu]

MapSet(m, k, v) == [x \in DOMAIN m \cup {k} |-> IF x = k THEN v ELSE m[x]]
MapDelete(m, k) == [x \in DOMAIN m \ {k} |-> m[x]]

Result(a, b, r, p) ==
    [allowed |-> a, blocked |-> b, retryAfterSeconds |-> r, path |-> p]

\* rateLimitCheck(ip) reading the clock as t: the map it leaves and the value
\* it returns. max is the request limit and block the block duration.
RateLimitCheckWith(state, ip, t, max, block) ==
    LET has == ip \in DOMAIN state
        current == state[ip]
    IN
    IF has /\ current.blockedUntil # Null /\ t < current.blockedUntil
    THEN [state |-> state,
          ret |-> Result(FALSE, TRUE,
                         CeilDiv1000(current.blockedUntil - t), "stillBlocked")]
    ELSE
      LET expired == has /\ current.blockedUntil # Null
                         /\ t >= current.blockedUntil
          state1 == IF expired THEN MapDelete(state, ip) ELSE state
          exists == ip \in DOMAIN state1
          existing == state1[ip]
      IN
      IF ~exists \/ t - existing.windowStart > RATE_LIMIT_WINDOW_MS
      THEN [state |-> MapSet(state1, ip, Entry(1, t, Null)),
            ret |-> Result(TRUE, FALSE, 0,
                           IF expired THEN "blockExpired"
                           ELSE IF exists THEN "windowExpired" ELSE "unseen")]
      ELSE
        LET count1 == existing.count + 1 IN
        IF count1 > max
        THEN [state |-> MapSet(state1, ip,
                          Entry(count1, existing.windowStart, t + block)),
              ret |-> Result(FALSE, TRUE, CeilDiv1000(block), "exceeded")]
        ELSE [state |-> MapSet(state1, ip,
                          Entry(count1, existing.windowStart, Null)),
              ret |-> Result(TRUE, FALSE, 0, "increment")]

RateLimitCheckOffByOne(state, ip, t) ==
    RateLimitCheckWith(state, ip, t, RATE_LIMIT_MAX_REQUESTS - 1,
                       RATE_LIMIT_BLOCK_MS)

RateLimitCheckShortBlock(state, ip, t) ==
    RateLimitCheckWith(state, ip, t, RATE_LIMIT_MAX_REQUESTS,
                       RATE_LIMIT_BLOCK_MS - 1000)

RateLimitCheckLostUpdate(state, ip, t) ==
    LET r == RateLimitCheckWith(state, ip, t, RATE_LIMIT_MAX_REQUESTS,
                                RATE_LIMIT_BLOCK_MS)
    IN IF r.ret.path = "increment" THEN [state |-> state, ret |-> r.ret] ELSE r

RateLimitCheckExtendsBlock(state, ip, t) ==
    LET r == RateLimitCheckWith(state, ip, t, RATE_LIMIT_MAX_REQUESTS,
                                RATE_LIMIT_BLOCK_MS)
    IN IF r.ret.path = "stillBlocked"
       THEN [state |-> MapSet(state, ip,
                              Entry(state[ip].count, state[ip].windowStart,
                                    t + RATE_LIMIT_BLOCK_MS)),
             ret |-> r.ret]
       ELSE r

RateLimitCheck(state, ip, t) ==
    RateLimitCheckWith(state, ip, t, RATE_LIMIT_MAX_REQUESTS,
                       RATE_LIMIT_BLOCK_MS)

\* ------------------------------------------------------------ history

\* The admitted times of the last window, oldest first.
Recent(log, t) == SelectSeq(log, LAMBDA x : x >= t - RATE_LIMIT_WINDOW_MS)

Logged(log, ip, t, allowed) ==
    [log EXCEPT ![ip] = IF allowed THEN Append(Recent(@, t), t) ELSE Recent(@, t)]

\* ------------------------------------------------------------ actions

NoResult ==
    [ip |-> "", at |-> 0, incrementedAt |-> [ip \in IPs |-> 0]]
        @@ Result(TRUE, FALSE, 0, "none")

InitLimiter ==
    /\ rateLimitState = << >>
    /\ rl = NoResult
    /\ step = 0
    /\ admitLog = [ip \in IPs |-> << >>]

\* Time passes.
Tick(d, max) ==
    /\ ticks < max
    /\ now' = now + d
    /\ ticks' = ticks + 1

\* One call rateLimitCheck(ip).
Check(ip) ==
    LET r == RateLimitCheck(rateLimitState, ip, now) IN
    /\ rateLimitState' = r.state
    /\ rl' = [ip |-> ip, at |-> now,
               incrementedAt |->
                   [rl.incrementedAt EXCEPT
                       ![ip] = IF r.ret.path = "stillBlocked" THEN @ ELSE now]]
              @@ r.ret
    /\ step' = 1 - step
    /\ admitLog' = Logged(admitLog, ip, now, r.ret.allowed)

\* ------------------------------------------------------------ the store

TEN_MINUTES == 10 * 60 * 1000
TWENTY_FOUR_HOURS == 24 * 60 * 60 * 1000
SevenHours == 7 * 60 * 60 * 1000

SEVEN_DAYS == 7 * 24 * 60 * 60 * 1000

\* A member of the sorted set is a text; it is modelled by its parts between
\* ':' (String(entry).split(':')). A part is the number its decimal text
\* denotes, or NonNumeric for a text parseInt finds no number in.
NonNumeric == -1000001
\* The number NaN: parseInt of a text without a number, or of undefined.
NaN == -1000002

\* A field the response does not have.
Absent == -1000003

\* `${now}:${currentPlayers}`
Member(t, count) == <<t, count>>

\* parseInt(text, 10) of one part
ParseInt(part) == IF part = NonNumeric THEN NaN ELSE part

Sample(score, member) == [score |-> score, member |-> member]

\* zadd(key, { score, member }): a member already present gets the new score.
ZAdd(set, score, member) ==
    {x \in set : x.member # member} \cup {Sample(score, member)}

\* zrange(key, min, max, { byScore: true }) / zrangebyscore(key, min, max):
\* the members with min <= score <= max.
ZRangeByScore(set, min, max) ==
    {x.member : x \in {y \in set : min <= y.score /\ y.score <= max}}

\* zremrangebyscore(key, min, max): removes the members with min <= score <= max.
ZRemRangeByScore(set, min, max) ==
    {x \in set : ~(min <= x.score /\ x.score <= max)}

\* What the store may hold when the process starts: nothing, or what earlier
\* writers left at Epoch0: a sample of 1 player, and two members that do not
\* have the form `${now}:${count}` (no ':', and no number after it).
Legacy ==
    {Sample(Epoch0, Member(Epoch0, 1)),
     Sample(Epoch0, <<NonNumeric>>), Sample(Epoch0, <<Epoch0, NonNumeric>>)}
InitialStores == {{}, Legacy}

\* ------------------------------------------------------------ the peaks

\* Math.max(...counts, currentPlayers): NaN if any argument is NaN.
MathMax(counts, currentPlayers) ==
    IF NaN \in counts \/ currentPlayers = NaN THEN NaN
    ELSE CHOOSE m \in counts \cup {currentPlayers} :
            \A c \in counts \cup {currentPlayers} : c <= m

\* get24hPeak / get7dPeak of the Redis handler over the entries a range
\* query returned (the empty set when the query failed). withCurrent: whether
\* currentPlayers takes part in the maximum.
GetPeakWith(entries, currentPlayers, withCurrent) ==
    IF entries = {} THEN currentPlayers
    ELSE
      LET parsed == {IF Len(e) >= 2 THEN ParseInt(e[2]) ELSE 0 : e \in entries}
          counts == {c \in parsed : c # NaN /\ c > 0}
      IN IF counts = {} THEN currentPlayers
         ELSE IF withCurrent THEN MathMax(counts, currentPlayers)
         ELSE MathMax(counts, CHOOSE c \in counts : TRUE)

GetPeakWithoutCurrent(entries, currentPlayers) ==
    GetPeakWith(entries, currentPlayers, FALSE)

GetPeak(entries, currentPlayers) == GetPeakWith(entries, currentPlayers, TRUE)

\* ------------------------------------------------------------ the handler

\* What the fetch of the count source ends in: an exception, a non-OK status,
\* a body that is null, has no data, has data that is no array, has an empty
\* array, or an array whose first entry has a number (or something else) as
\* playing.
SourceFailures == {"throws", "notOk", "nullBody", "noData", "notArray", "empty"}
SourcePayloads == Counts \cup {NonNumeric}

\* typeof data.data[0].playing === 'number' ? data.data[0].playing : 0
Playing(payload) == IF payload = NonNumeric THEN 0 ELSE payload

\* The locals of an invocation.
\*   pc:       the await the invocation is at ("idle": no invocation)
\*   gate:     what the rate limiting block did ("allowed", "fault")
\*   degraded: whether a store operation of this invocation failed (history)
\*   getFailed: whether its read of lastSaveTime failed (history)
\*   ok24:     whether the 24-hour range query returned (history)
\*   between:  whether the sorted set grew between the two range queries
\*             of this invocation (history)
Idle ==
    [pc |-> "idle", gate |-> "none", currentPlayers |-> 0, now |-> 0,
     last24hEntries |-> {}, degraded |-> FALSE, getFailed |-> FALSE,
     ok24 |-> FALSE, between |-> FALSE]

\* The response a step sends: res.status(status).json({ playing, peak24h,
\* peak7d, ... }), with the Retry-After header, and of the invocation that sent
\* it: gate, degraded, getFailed, ok24, between as above, source (what the
\* fetch ended in) and ok7 (whether the 7-day range query returned).
Response(r, status, playing, peak24h, peak7d, retryAfter, source, ok7) ==
    [status |-> status, playing |-> playing, peak24h |-> peak24h,
     peak7d |-> peak7d, retryAfter |-> retryAfter,
     gate |-> r.gate, source |-> source, degraded |-> r.degraded,
     getFailed |-> r.getFailed, ok24 |-> r.ok24, ok7 |-> ok7,
     between |-> r.between]

NoResponse == Response(Idle, 0, 0, 0, 0, 0, "none", FALSE)

\* The invocation in slot s goes on as r; no response is sent.
Continue(s, r) ==
    /\ req' = [req EXCEPT ![s] = r]
    /\ res' = NoResponse

\* The invocation in slot s sends the response and ends.
Respond(s, response) ==
    /\ req' = [req EXCEPT ![s] = Idle]
    /\ res' = response

InitStore ==
    /\ playerPeaks \in InitialStores
    /\ lastSaveTimeKey = 0
    /\ appended = << >>

Init ==
    /\ now = Epoch0
    /\ ticks = 0
    /\ InitLimiter
    /\ InitStore
    /\ req = [s \in Slots |-> Idle]
    /\ res = NoResponse
    /\ started = 0

\* An invocation takes the first slot that holds none.
Free(s) ==
    /\ req[s].pc = "idle"
    /\ \A s2 \in Slots : s2 < s => req[s2].pc # "idle"

GateAfterFetch(s, ret) ==
    /\ req' = [req EXCEPT ![s] = [Idle EXCEPT !.pc = "fetch",
                                              !.gate = "allowed"]]
    /\ res' = IF ret.allowed THEN NoResponse
              ELSE Response([Idle EXCEPT !.gate = "denied"], 429, 0, 0, 0,
                            ret.retryAfterSeconds, "none", FALSE)

\* What the rate limiting block makes of the limiter's answer: the request
\* goes on to the fetch, or is answered 429 with Retry-After.
Gate(s, ret) ==
    IF ret.allowed
    THEN Continue(s, [Idle EXCEPT !.pc = "fetch", !.gate = "allowed"])
    ELSE /\ req' = req
         /\ res' = Response([Idle EXCEPT !.gate = "denied"], 429, 0, 0, 0,
                            ret.retryAfterSeconds, "none", FALSE)

GateFaultDenies(s) ==
    /\ req' = req
    /\ res' = Response([Idle EXCEPT !.gate = "fault"], 429, 0, 0, 0, 0, "none",
                       FALSE)

\* The catch of the rate limiting block: the request goes on.
GateFault(s) == Continue(s, [Idle EXCEPT !.pc = "fetch", !.gate = "fault"])

\* The rate limiting block of the max-th invocation at most. fault: the block
\* throws before rateLimitCheck is called (req.headers is undefined). The
\* block has no await: it runs to its end before any other invocation steps.
StartWith(s, ip, fault, max) ==
    /\ Free(s)
    /\ started < max
    /\ started' = started + 1
    /\ IF fault
       THEN /\ UNCHANGED limiterVars
            /\ GateFault(s)
       ELSE /\ Check(ip)
            /\ Gate(s, rl')
    /\ UNCHANGED <<now, ticks, storeVars>>

Start(s, ip, fault) == StartWith(s, ip, fault, MaxRequests)

\* The handler without a rate limiting block (src/api/players.js): the
\* invocation starts at the fetch.
Begin(s) ==
    /\ Free(s)
    /\ started < MaxRequests
    /\ started' = started + 1
    /\ Continue(s, [Idle EXCEPT !.pc = "fetch"])
    /\ UNCHANGED <<now, ticks, limiterVars, storeVars>>

SourceUnavailableNoPeaks(r, failure) ==
    Response(r, 500, 0, Absent, Absent, 0, failure, FALSE)

\* The top-level catch: currentPlayers || 0, peak24h || 0, peak7d || 0, with
\* currentPlayers and the peaks still 0.
SourceUnavailable(r, failure) == Response(r, 500, 0, 0, 0, 0, failure, FALSE)

FetchFailsAfterSave(s, failure) ==
    /\ req[s].pc = "fetch"
    /\ Respond(s, SourceUnavailable(req[s], failure))
    /\ lastSaveTimeKey' = now
    /\ UNCHANGED <<now, ticks, limiterVars, playerPeaks, appended, started>>

\* The fetch of the count source ends without a usable payload.
FetchFails(s, failure) ==
    /\ req[s].pc = "fetch"
    /\ Respond(s, SourceUnavailable(req[s], failure))
    /\ UNCHANGED <<now, ticks, limiterVars, storeVars, started>>

\* The peaks when the Redis block gives up (env vars missing, or the outer
\* catch): peak24h = peak7d = currentPlayers.
Fallback(r) ==
    Response(r, 200, r.currentPlayers, r.currentPlayers, r.currentPlayers, 0,
             "ok", FALSE)

\* The fetch returns a payload; the Redis client is set up. setup: the import
\* of the client or its construction throws, the env vars are missing, or the
\* client is there and now = Date.now() is read.
FetchReturns(s, payload, setup) ==
    /\ req[s].pc = "fetch"
    /\ LET r == [req[s] EXCEPT !.currentPlayers = Playing(payload)] IN
       IF setup = "ok"
       THEN Continue(s, [r EXCEPT !.pc = "get", !.now = now])
       ELSE Respond(s, Fallback([r EXCEPT !.degraded = TRUE]))
    /\ UNCHANGED <<now, ticks, limiterVars, storeVars, started>>

SaveDueAfter(t, lastSaveTime) ==
    t - lastSaveTime > TEN_MINUTES \/ lastSaveTime = 0

\* timeSinceLastSave >= TEN_MINUTES || lastSaveTime === 0
SaveDue(t, lastSaveTime) == t - lastSaveTime >= TEN_MINUTES \/ lastSaveTime = 0

\* redis.get('lastSaveTime') returns or throws (lastSaveTime stays 0).
GetReturns(s, ok) ==
    /\ req[s].pc = "get"
    /\ LET lastSaveTime == IF ok THEN lastSaveTimeKey ELSE 0
           r == [req[s] EXCEPT !.degraded = @ \/ ~ok, !.getFailed = ~ok]
       IN Continue(s, [r EXCEPT !.pc = IF SaveDue(r.now, lastSaveTime)
                                       THEN "zadd" ELSE "zrange24"])
    /\ UNCHANGED <<now, ticks, limiterVars, storeVars, started>>

\* The members the invocations added, with this one if the set did not hold it.
Appended(set, member) ==
    IF member \in {x.member : x \in set} THEN appended
    ELSE Append(appended, member)

\* The invocations between their two range queries see the set grow.
Grown(s, r) ==
    [x \in Slots |->
        IF x = s THEN r
        ELSE IF req[x].pc = "zrange7" THEN [req[x] EXCEPT !.between = TRUE]
        ELSE req[x]]

ZaddFailureIgnored(s, ok) ==
    /\ req[s].pc = "zadd"
    /\ LET r == req[s]
           member == Member(r.now, r.currentPlayers)
       IN IF ok
          THEN /\ playerPeaks' = ZAdd(playerPeaks, r.now, member)
               /\ appended' = Appended(playerPeaks, member)
               /\ req' = Grown(s, [r EXCEPT !.pc = "set"])
               /\ res' = NoResponse
          ELSE /\ UNCHANGED <<playerPeaks, appended>>
               /\ Continue(s, [r EXCEPT !.pc = "set", !.degraded = TRUE])
    /\ UNCHANGED <<now, ticks, limiterVars, lastSaveTimeKey, started>>

\* redis.zadd('playerPeaks', { score: now, member }) returns or throws.
ZaddReturns(s, ok) ==
    /\ req[s].pc = "zadd"
    /\ LET r == req[s]
           member == Member(r.now, r.currentPlayers)
       IN IF ok
          THEN /\ playerPeaks' = ZAdd(playerPeaks, r.now, member)
               /\ appended' = Appended(playerPeaks, member)
               /\ req' = Grown(s, [r EXCEPT !.pc = "set"])
               /\ res' = NoResponse
          ELSE /\ UNCHANGED <<playerPeaks, appended>>
               /\ Continue(s, [r EXCEPT !.pc = "zrange24", !.degraded = TRUE])
    /\ UNCHANGED <<now, ticks, limiterVars, lastSaveTimeKey, started>>

\* redis.set('lastSaveTime', now.toString()) returns or throws.
SetReturns(s, ok) ==
    /\ req[s].pc = "set"
    /\ lastSaveTimeKey' = IF ok THEN req[s].now ELSE lastSaveTimeKey
    /\ Continue(s, [req[s] EXCEPT !.pc = "zrange24", !.degraded = @ \/ ~ok])
    /\ UNCHANGED <<now, ticks, limiterVars, playerPeaks, appended, started>>

\* redis.zrange('playerPeaks', twentyFourHoursAgo, now, { byScore: true })
\* returns or throws (last24hEntries stays []).
Zrange24Returns(s, ok) ==
    /\ req[s].pc = "zrange24"
    /\ LET r == req[s] IN
       Continue(s, [r EXCEPT !.pc = "zrange7", !.ok24 = ok,
                 !.degraded = @ \/ ~ok,
                 !.last24hEntries =
                    IF ok THEN ZRangeByScore(playerPeaks,
                                             r.now - TWENTY_FOUR_HOURS, r.now)
                    ELSE {}])
    /\ UNCHANGED <<now, ticks, limiterVars, storeVars, started>>

\* The success response of the Redis handler from the entries of the two
\* range queries.
Success(r, last7dEntries, ok7) ==
    Response(r, 200, r.currentPlayers,
             GetPeak(r.last24hEntries, r.currentPlayers),
             GetPeak(last7dEntries, r.currentPlayers), 0, "ok", ok7)

Zrange7Escapes(s, ok) ==
    /\ req[s].pc = "zrange7"
    /\ LET r == [req[s] EXCEPT !.degraded = @ \/ ~ok] IN
       IF ok
       THEN Respond(s, Success(r, ZRangeByScore(playerPeaks,
                                                r.now - SEVEN_DAYS, r.now), ok))
       ELSE /\ req' = [req EXCEPT ![s] = Idle]
            /\ res' = NoResponse
    /\ UNCHANGED <<now, ticks, limiterVars, storeVars, started>>

\* redis.zrange('playerPeaks', sevenDaysAgo, now, { byScore: true }) returns
\* or throws (last7dEntries stays []); the peaks are computed and the
\* response is sent.
Zrange7Returns(s, ok) ==
    /\ req[s].pc = "zrange7"
    /\ LET r == [req[s] EXCEPT !.degraded = @ \/ ~ok]
           last7dEntries ==
               IF ok THEN ZRangeByScore(playerPeaks, r.now - SEVEN_DAYS, r.now)
               ELSE {}
       IN Respond(s, Success(r, last7dEntries, ok))
    /\ UNCHANGED <<now, ticks, limiterVars, storeVars, started>>

\* The awaits of the store calls of the Redis handler.
StoreCalls == {"get", "zadd", "set", "zrange24", "zrange7"}

\* The store call the invocation awaits never settles: nothing bounds the
\* await, so the invocation stays at it.
StoreCallHangs(s) ==
    /\ req[s].pc \in StoreCalls
    /\ Continue(s, [req[s] EXCEPT !.pc = "hung"])
    /\ UNCHANGED <<now, ticks, limiterVars, storeVars, started>>

\* ------------------------------------------------------------ the KV handler

\* get24hPeak / get7dPeak of the KV handler: parseInt(entry.split(':')[1])
\* of every entry, undefined when the entry has no ':'; nothing is discarded.
KvGetPeak(entries, currentPlayers) ==
    IF entries = {} THEN currentPlayers
    ELSE MathMax({IF Len(e) >= 2 THEN ParseInt(e[2]) ELSE NaN : e \in entries},
                 currentPlayers)

\* The catch of the KV handler: playing, peak24h and peak7d are 0.
KvFailure(r, source) == Response(r, 500, 0, 0, 0, 0, source, FALSE)

\* The fetch ends without a usable payload: an exception or a non-OK status
\* ends in the catch; a body without a non-empty data array is answered
\* { error: 'No data', playing: 0 }.
KvFetchFails(s, failure) ==
    /\ req[s].pc = "fetch"
    /\ Respond(s, IF failure \in {"throws", "notOk"}
                  THEN KvFailure(req[s], failure)
                  ELSE Response(req[s], 500, 0, Absent, Absent, 0, failure,
                                FALSE))
    /\ UNCHANGED <<now, ticks, limiterVars, storeVars, started>>

\* The fetch returns a payload; @vercel/kv is imported (or the import throws)
\* and now = Date.now() is read.
KvFetchReturns(s, payload, ok) ==
    /\ req[s].pc = "fetch"
    /\ LET r == [req[s] EXCEPT !.currentPlayers = Playing(payload)] IN
       IF ok
       THEN Continue(s, [r EXCEPT !.pc = "get", !.now = now])
       ELSE Respond(s, KvFailure([r EXCEPT !.degraded = TRUE], "ok"))
    /\ UNCHANGED <<now, ticks, limiterVars, storeVars, started>>

\* A store call of the KV handler throws: the catch answers.
KvThrows(s) == Respond(s, KvFailure([req[s] EXCEPT !.degraded = TRUE], "ok"))

\* kv.get('lastSaveTime') || 0 returns or throws.
KvGetReturns(s, ok) ==
    /\ req[s].pc = "get"
    /\ IF ok
       THEN Continue(s, [req[s] EXCEPT
                 !.pc = IF SaveDue(req[s].now, lastSaveTimeKey) THEN "zadd"
                        ELSE "zrange24"])
       ELSE KvThrows(s)
    /\ UNCHANGED <<now, ticks, limiterVars, storeVars, started>>

\* kv.zadd('playerPeaks', { score: now, member }) returns or throws.
KvZaddReturns(s, ok) ==
    /\ req[s].pc = "zadd"
    /\ LET r == req[s]
           member == Member(r.now, r.currentPlayers)
       IN IF ok
          THEN /\ playerPeaks' = ZAdd(playerPeaks, r.now, member)
               /\ appended' = Appended(playerPeaks, member)
               /\ req' = Grown(s, [r EXCEPT !.pc = "set"])
               /\ res' = NoResponse
          ELSE /\ UNCHANGED <<playerPeaks, appended>>
               /\ KvThrows(s)
    /\ UNCHANGED <<now, ticks, limiterVars, lastSaveTimeKey, started>>

\* kv.set('lastSaveTime', now) returns or throws.
KvSetReturns(s, ok) ==
    /\ req[s].pc = "set"
    /\ IF ok
       THEN /\ lastSaveTimeKey' = req[s].now
            /\ Continue(s, [req[s] EXCEPT !.pc = "prune"])
       ELSE /\ UNCHANGED lastSaveTimeKey
            /\ KvThrows(s)
    /\ UNCHANGED <<now, ticks, limiterVars, playerPeaks, appended, started>>

\* Cleanup: kv.zremrangebyscore('playerPeaks', 0, sevenDaysAgo) returns or
\* throws.
KvPruneReturns(s, ok) ==
    /\ req[s].pc = "prune"
    /\ IF ok
       THEN /\ playerPeaks' =
                 ZRemRangeByScore(playerPeaks, 0, req[s].now - SEVEN_DAYS)
            /\ Continue(s, [req[s] EXCEPT !.pc = "zrange24"])
       ELSE /\ UNCHANGED playerPeaks
            /\ KvThrows(s)
    /\ UNCHANGED <<now, ticks, limiterVars, lastSaveTimeKey, appended, started>>

\* kv.zrangebyscore('playerPeaks', twentyFourHoursAgo, now) returns or throws.
KvZrange24Returns(s, ok) ==
    /\ req[s].pc = "zrange24"
    /\ LET r == req[s] IN
       IF ok
       THEN Continue(s, [r EXCEPT !.pc = "zrange7", !.ok24 = TRUE,
                 !.last24hEntries =
                    ZRangeByScore(playerPeaks, r.now - TWENTY_FOUR_HOURS, r.now)])
       ELSE KvThrows(s)
    /\ UNCHANGED <<now, ticks, limiterVars, storeVars, started>>

\* kv.zrangebyscore('playerPeaks', sevenDaysAgo, now) returns or throws; the
\* peaks are computed and the response is sent.
KvZrange7Returns(s, ok) ==
    /\ req[s].pc = "zrange7"
    /\ LET r == req[s] IN
       IF ok
       THEN Respond(s, Response(r, 200, r.currentPlayers,
                KvGetPeak(r.last24hEntries, r.currentPlayers),
                KvGetPeak(ZRangeByScore(playerPeaks, r.now - SEVEN_DAYS, r.now),
                          r.currentPlayers),
                0, "ok", TRUE))
       ELSE KvThrows(s)
    /\ UNCHANGED <<now, ticks, limiterVars, storeVars, started>>

\* Clock advances explored for the handler.
HandlerTicks ==
    {1, TEN_MINUTES, TWENTY_FOUR_HOURS, SEVEN_DAYS, SEVEN_DAYS + 1}

\* ------------------------------------------------------------ specifications

\* The limiter alone: calls of rateLimitCheck as time passes.
LimiterTick ==
    /\ \E d \in LimiterTicks : Tick(d, MaxLimiterTicks)
    /\ UNCHANGED <<limiterVars, handlerVars>>

LimiterCheck ==
    /\ \E ip \in LimiterIPs : Check(ip)
    /\ UNCHANGED <<now, ticks, handlerVars>>

NextLimiter == LimiterTick \/ LimiterCheck

InitLimiterAlone == Init /\ playerPeaks = {}

SpecLimiter == InitLimiterAlone /\ [][NextLimiter]_vars

\* The handler with the rate limiter and the Redis peak tracking.
HandlerTick ==
    /\ \E d \in HandlerTicks : Tick(d, MaxTicks)
    /\ res' = NoResponse
    /\ UNCHANGED <<limiterVars, storeVars, req, started>>

\* What the set-up of the Redis client ends in.
Setups == {"ok", "import", "env", "client"}

\* The steps of the invocations in the slots, the store answering its calls
\* as oks says (TRUE: returns, FALSE: throws) and the set-up ending as setups
\* says.
Handler(slots, oks, setups) ==
    \/ \E s \in slots, f \in SourceFailures : FetchFails(s, f)
    \/ \E s \in slots, p \in SourcePayloads, setup \in setups :
          FetchReturns(s, p, setup)
    \/ \E s \in slots, ok \in oks : GetReturns(s, ok)
    \/ \E s \in slots, ok \in oks : ZaddReturns(s, ok)
    \/ \E s \in slots, ok \in oks : SetReturns(s, ok)
    \/ \E s \in slots, ok \in oks : Zrange24Returns(s, ok)
    \/ \E s \in slots, ok \in oks : Zrange7Returns(s, ok)

\* The handler with the rate limiting block, one invocation at a time; every
\* store call may fail.
Next ==
    \/ HandlerTick
    \/ \E ip \in LimiterIPs, fault \in BOOLEAN : Start(1, ip, fault)
    \/ Handler({1}, BOOLEAN, Setups)

Spec == Init /\ [][Next]_vars

\* The handler without the rate limiting block, its invocations interleaved
\* at their awaits; the store answers every call.
NextConcurrent ==
    \/ HandlerTick
    \/ \E s \in Slots : Begin(s)
    \/ Handler(Slots, {TRUE}, {"ok"})

SpecConcurrent == Init /\ [][NextConcurrent]_vars

\* The KV handler, one invocation at a time; every store call may fail.
NextKv ==
    \/ HandlerTick
    \/ Begin(1)
    \/ \E f \in SourceFailures : KvFetchFails(1, f)
    \/ \E p \in SourcePayloads, ok \in BOOLEAN : KvFetchReturns(1, p, ok)
    \/ \E ok \in BOOLEAN : KvGetReturns(1, ok)
    \/ \E ok \in BOOLEAN : KvZaddReturns(1, ok)
    \/ \E ok \in BOOLEAN : KvSetReturns(1, ok)
    \/ \E ok \in BOOLEAN : KvPruneReturns(1, ok)
    \/ \E ok \in BOOLEAN : KvZrange24Returns(1, ok)
    \/ \E ok \in BOOLEAN : KvZrange7Returns(1, ok)

SpecKv == Init /\ [][NextKv]_vars

\* A burst of invocations of one client on the handler with the rate limiting
\* block, no time passing, one at a time; every store call may fail. Every await
\* settles: the step after it is taken.
NextBurst ==
    \/ \E ip \in LimiterIPs, fault \in BOOLEAN :
          StartWith(1, ip, fault, MaxBurst)
    \/ Handler({1}, BOOLEAN, Setups)

SpecBurst ==
    Init /\ [][NextBurst]_vars /\ WF_vars(Handler({1}, BOOLEAN, Setups))

\* A burst of invocations of two clients, interleaved at their awaits; the
\* store answers every call.
NextBurstConcurrent ==
    \/ \E s \in Slots, ip \in IPs : StartWith(s, ip, FALSE, MaxBurst)
    \/ Handler(Slots, {TRUE}, {"ok"})

SpecBurstConcurrent == Init /\ [][NextBurstConcurrent]_vars

\* The handler without the rate limiting block, one invocation at a time,
\* over a store whose calls return or never settle. Every await that settles
\* is followed by the step after it.
NextHanging ==
    \/ HandlerTick
    \/ Begin(1)
    \/ Handler({1}, {TRUE}, {"ok"})
    \/ StoreCallHangs(1)

SpecHanging ==
    Init /\ [][NextHanging]_vars /\ WF_vars(Handler({1}, {TRUE}, {"ok"}))

\* ------------------------------------------------------------ the limiter's claims
\* (checked under SpecLimiter)

\* The step is a call rateLimitCheck(ip).
Checks(ip) == step' # step /\ rl'.ip = ip

\* The admitted calls of ip at or after time t.
AdmittedSince(log, ip, t) == Len(SelectSeq(log[ip], LAMBDA x : x >= t))

\* C1: a call for a client that has no entry is admitted and opens a window
\* with count 1; within 10 seconds of the window's start the calls that find
\* a count below 10 are admitted and counted (so the window's first 10 calls
\* are admitted: the count is the number of calls admitted since the window
\* started), and the call that finds the count at 10, the 11th, is denied with
\* retryAfterSeconds = 3600 and leaves the entry blocked until now + 1 hour.
C1_FirstTenAdmittedEleventhBlocked ==
    [][\A ip \in LimiterIPs : Checks(ip) =>
         LET seen == ip \in DOMAIN rateLimitState
             e == rateLimitState[ip]
             e1 == rateLimitState'[ip]
         IN
         /\ ~seen => rl'.allowed /\ e1 = Entry(1, now, Null)
         /\ (seen /\ e.blockedUntil = Null /\ now - e.windowStart <= 10000) =>
              IF e.count < 10
              THEN /\ rl'.allowed
                   /\ e1 = Entry(e.count + 1, e.windowStart, Null)
                   /\ AdmittedSince(admitLog', ip, e.windowStart) = e1.count
              ELSE /\ ~rl'.allowed
                   /\ rl'.retryAfterSeconds = 3600
                   /\ e1.blockedUntil = now + 3600000
                   /\ AdmittedSince(admitLog', ip, e.windowStart) = 10
    ]_vars

\* C1's case: the 11th call of a window has just been denied, after 10
\* admitted ones.
C1_Witness ==
    /\ rl.path = "exceeded"
    /\ rl.retryAfterSeconds = 3600
    /\ rateLimitState[rl.ip].count = 11
    /\ rateLimitState[rl.ip].blockedUntil = rl.at + 3600000
    /\ AdmittedSince(admitLog, rl.ip, rateLimitState[rl.ip].windowStart) = 10

\* C2: while a client's entry is blocked until bu, a call at now < bu is
\* denied with retryAfterSeconds = ceil((bu - now) / 1000), a value in
\* 1..3600, and leaves the entry as it is; no other step changes the entry;
\* and the call at now >= bu is admitted and leaves count = 1,
\* windowStart = now and no block.
C2_BlockedUntilExpiry ==
    [][\A ip \in LimiterIPs :
         (ip \in DOMAIN rateLimitState /\ rateLimitState[ip].blockedUntil # Null) =>
           LET e == rateLimitState[ip]
               bu == e.blockedUntil
               r == rl'.retryAfterSeconds
           IN
           IF ~Checks(ip) THEN rateLimitState'[ip] = e
           ELSE IF now < bu
           THEN /\ ~rl'.allowed
                /\ 1000 * (r - 1) < bu - now /\ bu - now <= 1000 * r
                /\ r \in 1..3600
                /\ rateLimitState'[ip] = e
           ELSE /\ rl'.allowed
                /\ rateLimitState'[ip] = Entry(1, now, Null)
    ]_vars

\* C2's case: a block has expired and the call after it was admitted into a
\* fresh window.
C2_Witness ==
    /\ rl.path = "blockExpired"
    /\ rl.allowed
    /\ rateLimitState[rl.ip] = Entry(1, rl.at, Null)

\* C2's other case: a call during the block was denied with a retry-after
\* that is not the whole hour.
C2_WitnessDenied ==
    /\ rl.path = "stillBlocked"
    /\ rl.retryAfterSeconds \in 1..3599

\* C3: in every interval of 10 seconds at most 10 calls of a client are
\* admitted. Stated of the intervals that end at a call: of the calls
\* admitted less than 10 seconds before it, itself included, there are at
\* most 10.
C3_SlidingWindow ==
    \A ip \in LimiterIPs :
        Len(SelectSeq(admitLog[ip], LAMBDA x : x > rl.at - 10000)) <= 10

\* ------------------------------------------------------------ the handler's claims

\* a >= b on JavaScript numbers: false when either is NaN.
JsGeq(a, b) == a # NaN /\ b # NaN /\ a >= b

\* C4: in every success (200) response peak24h >= playing and
\* peak7d >= playing, whatever members the store holds and whichever store
\* operations fail. It holds of the Redis handler (Spec) and is violated by
\* the KV handler (SpecKv), whose peaks are NaN when a member has no count.
C4_PeaksAtLeastPlaying ==
    res.status = 200 =>
        JsGeq(res.peak24h, res.playing) /\ JsGeq(res.peak7d, res.playing)

\* C5: in every success response of an invocation whose two range queries
\* both returned, peak7d >= peak24h, also when other invocations append
\* samples between the two queries (checked under SpecConcurrent).
C5_SevenDayPeakAtLeastDayPeak ==
    (res.status = 200 /\ res.ok24 /\ res.ok7) => JsGeq(res.peak7d, res.peak24h)

\* C5's case: a success response of an invocation between whose two range
\* queries another invocation appended a sample, which the 7-day query
\* returned and the 24-hour query had not.
C5_Witness ==
    /\ res.status = 200 /\ res.ok24 /\ res.ok7
    /\ res.between
    /\ res.peak7d > res.peak24h

\* C6: two invocations whose times lie within one 10-minute sample interval
\* append at most one new sample between them, handled one after the other
\* or concurrently: any two samples the invocations added have timestamps at
\* least 10 minutes apart (checked under SpecConcurrent).
C6_OneSamplePerInterval ==
    \A i, j \in DOMAIN appended :
        i < j => \/ appended[j][1] - appended[i][1] >= 600000
                 \/ appended[i][1] - appended[j][1] >= 600000

\* C7: a prune by an invocation at time now removes no sample whose timestamp
\* is >= now - 7 days, so that the 7-day range query [now - 7d, now] issued
\* right after it returns every stored sample of that range (checked under
\* SpecKv, the handler that prunes).
C7_PruneKeepsQueryableSamples ==
    [][\A s \in Slots :
         (req[s].pc = "prune" /\ req'[s].pc = "zrange24") =>
            \A x \in playerPeaks :
                x.score >= req[s].now - 604800000 => x \in playerPeaks'
    ]_vars

\* C8: when the limiter lets the request on and the count source returns a
\* valid payload, the response has status 200 whichever store operations
\* fail. It holds of the Redis handler (Spec) and is violated by the KV
\* handler (SpecKv), which answers 500 when a store call throws.
C8_StoreFailureInvisible ==
    (res.status # 0 /\ res.gate # "denied" /\ res.source = "ok") =>
        res.status = 200

\* C9: when the count source is unavailable (the fetch throws, a non-success
\* status, a body that is absent, has no data, data that is no array, or an
\* empty data array) the response is a 500 carrying playing = 0, peak24h = 0
\* and peak7d = 0 (checked under Spec).
C9_SourceUnavailableIs500 ==
    res.source \in {"throws", "notOk", "nullBody", "noData", "notArray", "empty"} =>
        /\ res.status = 500
        /\ res.playing = 0 /\ res.peak24h = 0 /\ res.peak7d = 0

\* C9's case: the source returned an empty data array and the 500 was sent.
C9_Witness == res.source = "empty" /\ res.status = 500 /\ res.playing = 0

\* C10: a request whose rate-limit check raised a fault goes on to the fetch
\* of the count source and is answered as an admitted request is: never 429;
\* 500 with zeroes exactly when the source is unavailable, and otherwise 200
\* with the count the source reported (checked under Spec).
C10_LimiterFailsOpen ==
    /\ \A s \in Slots : req[s].gate = "fault" => req[s].pc # "idle"
    /\ res.gate = "fault" =>
         /\ res.status \in {200, 500}
         /\ res.source # "none"
         /\ res.status = 500 <=> res.source # "ok"
         /\ res.status = 500 => res.playing = 0 /\ res.peak24h = 0 /\ res.peak7d = 0
         /\ res.status = 200 => JsGeq(res.peak24h, res.playing)
                                /\ JsGeq(res.peak7d, res.playing)

\* C10's case: a request whose rate-limit check faulted was answered 200.
C10_Witness == res.gate = "fault" /\ res.status = 200 /\ res.source = "ok"

\* ------------------------------------------------------------ termination
\* (checked under SpecBurst)

\* The step ends the invocation in slot s.
Ends(s) == req[s].pc # "idle" /\ req'[s].pc = "idle"

\* C11: every request, whatever the limiter, the count source and the store
\* calls fail with, ends with exactly one well-formed response of status 200,
\* 429 or 500. A step that ends an invocation sends a 200 or a 500 that
\* carries the numbers playing, peak24h and peak7d; a request that arrives is
\* either answered 429 with a Retry-After on the spot or is in flight with no
\* response yet; no other step sends a response; and an invocation in flight
\* eventually ends.
C11_EveryRequestAnswered ==
    /\ [][/\ res'.status \in {0, 200, 429, 500}
          /\ \A s \in Slots : Ends(s) =>
                /\ res'.status \in {200, 500}
                /\ {res'.playing, res'.peak24h, res'.peak7d}
                       \cap {NaN, Absent} = {}
          /\ started' # started =>
                \/ res'.status = 429 /\ res'.retryAfter > 0 /\ req' = req
                \/ res'.status = 0 /\ \E s \in Slots : req'[s].pc = "fetch"
                                                       /\ req[s].pc = "idle"
          /\ res'.status # 0 =>
                started' # started \/ \E s \in Slots : Ends(s)
       ]_vars
    /\ \A s \in Slots : (req[s].pc # "idle") ~> (req[s].pc = "idle")

\* C11's case: a request whose rate-limit check faulted and whose every store
\* call failed has been answered.
C11_Witness ==
    /\ res.status = 200
    /\ res.gate = "fault"
    /\ res.getFailed /\ res.degraded /\ ~res.ok24 /\ ~res.ok7

\* C11's other case: the limiter denied the request and it was answered 429.
C11_WitnessDenied == res.status = 429 /\ res.gate = "denied"

\* ------------------------------------------------------------ sampling
\* (the Redis handler)

\* C12: the stored lastSaveTime never decreases: every write of it stores a
\* value >= the value stored before, in any sequence or interleaving of
\* invocations (checked under SpecConcurrent).
C12_LastSaveTimeNeverDecreases ==
    [][lastSaveTimeKey' >= lastSaveTimeKey]_vars

\* C13: when the read of lastSaveTime fails in an invocation whose source
\* payload is valid, the response has status 200 and peak24h = peak7d = the
\* current count (checked under Spec).
C13_ReadFailureGivesCurrentPeaks ==
    (res.status # 0 /\ res.source = "ok" /\ res.getFailed) =>
        /\ res.status = 200
        /\ res.peak24h = res.playing
        /\ res.peak7d = res.playing

\* ------------------------------------------------------------ peaks
\* (the Redis handler)

\* The counts of the well-formed members among entries: those of the form
\* time:count with a positive count.
ValidCounts(entries) ==
    {e[2] : e \in {m \in entries :
                      Len(m) >= 2 /\ m[2] # NonNumeric /\ m[2] > 0}}

\* The members stored with a timestamp in [lo, hi].
StoredIn(set, lo, hi) == {x.member : x \in {y \in set : y.score \in lo..hi}}

Maximum(S) == CHOOSE m \in S : \A x \in S : x <= m

\* C14: for each window whose range query returned, the reported peak is the
\* maximum of the current count and the counts of the samples stored, when the
\* query was made, with a timestamp in [now - window, now], malformed and
\* non-positive counts discarded (so it is the current count when no valid
\* count remains). The 24-hour query hands the handler the members of its
\* window, and the response takes peak24h from them and peak7d from the store
\* (checked under Spec).
C14_PeakIsMaximum ==
    [][\A s \in Slots :
         LET r == req[s] IN
         /\ (r.pc = "zrange24" /\ req'[s].ok24) =>
               req'[s].last24hEntries =
                   StoredIn(playerPeaks, r.now - 86400000, r.now)
         /\ (Ends(s) /\ res'.status = 200 /\ res'.ok24) =>
               res'.peak24h =
                   Maximum(ValidCounts(r.last24hEntries) \cup {r.currentPlayers})
         /\ (Ends(s) /\ res'.status = 200 /\ res'.ok7) =>
               res'.peak7d =
                   Maximum(ValidCounts(StoredIn(playerPeaks,
                                                r.now - 604800000, r.now))
                           \cup {r.currentPlayers})
    ]_vars

\* C14's case: both queries returned; the 7-day peak is a stored count above
\* the current one, from a window that also holds malformed members, and the
\* 24-hour window holds no valid count, so its peak is the current count.
C14_Witness ==
    /\ res.status = 200 /\ res.ok24 /\ res.ok7
    /\ res.playing = 0 /\ res.peak24h = 0 /\ res.peak7d = 1

\* The step is one of the invocation in slot s, which goes on after it.
GoesOn(s) == req'[s].pc \notin {req[s].pc, "idle"}

\* C15: with every store call succeeding, an invocation at time now that
\* reads lastSaveTime = t goes on to save exactly when now - t >= 10 minutes
\* or t = 0; the save appends the one sample (now, current count), scored
\* now, and then sets lastSaveTime to now; the read, the range queries and an
\* invocation that does not save leave the samples and lastSaveTime as they
\* are (checked under SpecConcurrent, where invocations interleave).
C15_SamplingDecision ==
    [][\A s \in Slots :
         LET r == req[s]
             t == lastSaveTimeKey
         IN
         /\ (r.pc = "get" /\ GoesOn(s)) =>
               /\ req'[s].pc = IF r.now - t >= 600000 \/ t = 0
                               THEN "zadd" ELSE "zrange24"
               /\ UNCHANGED <<playerPeaks, lastSaveTimeKey>>
         /\ (r.pc = "zadd" /\ GoesOn(s)) =>
               /\ req'[s].pc = "set"
               /\ playerPeaks' = playerPeaks \cup
                     {[score |-> r.now, member |-> <<r.now, r.currentPlayers>>]}
               /\ UNCHANGED lastSaveTimeKey
         /\ (r.pc = "set" /\ GoesOn(s)) =>
               /\ req'[s].pc \in {"zrange24", "prune"}
               /\ lastSaveTimeKey' = r.now
               /\ UNCHANGED playerPeaks
         /\ (r.pc = "zrange24" /\ GoesOn(s)) =>
               /\ req'[s].pc = "zrange7"
               /\ UNCHANGED <<playerPeaks, lastSaveTimeKey>>
         /\ (r.pc = "zrange7" /\ Ends(s)) =>
               UNCHANGED <<playerPeaks, lastSaveTimeKey>>
    ]_vars

\* C15's case: an invocation exactly 10 minutes after the last save has
\* appended its sample and set lastSaveTime to its time.
C15_Witness ==
    /\ Len(appended) = 2
    /\ appended[2][1] - appended[1][1] = 600000
    /\ lastSaveTimeKey = appended[2][1]

\* ------------------------------------------------------------ retention

\* C16: every invocation with a valid source payload prunes: once it has
\* completed with its store calls succeeding, the store holds no sample with
\* a timestamp below now - 7 days (checked under SpecConcurrent, the Redis
\* handler with the store answering every call).
C16_EveryInvocationPrunes ==
    [][\A s \in Slots :
         (Ends(s) /\ res'.status = 200 /\ ~res'.degraded) =>
            \A x \in playerPeaks' : x.score >= req[s].now - 604800000
    ]_vars

\* ------------------------------------------------------------ hanging store calls
\* (checked under SpecHanging)

\* C17: a store call that never returns does not hang the request: every
\* invocation that has a valid source payload and awaits the store eventually
\* ends with its response.
C17_HangingStoreCallAnswered ==
    \A s \in Slots : (req[s].pc \in StoreCalls) ~> (req[s].pc = "idle")

\* ------------------------------------------------------------ the limiter in the handler
\* (checked under SpecBurstConcurrent)

\* C18: the limiter's read-modify-write of a client's entry is atomic with
\* respect to the other requests of the process: however the invocations
\* interleave, no increment of the count is lost. The entry's count is the
\* number of the client's requests admitted in its window, plus the one that
\* was denied and started the block, so that at most 10 requests of a window
\* are admitted.
C18_NoLostIncrement ==
    \A ip \in IPs : ip \in DOMAIN rateLimitState =>
        LET e == rateLimitState[ip]
            admitted == AdmittedSince(admitLog, ip, e.windowStart)
        IN /\ admitted <= 10
           /\ e.count = admitted + (IF e.blockedUntil # Null THEN 1 ELSE 0)

\* C18's case: while an earlier invocation is still in flight, the 11th
\* request of a client's window has been denied, after 10 admitted ones.
C18_Witness ==
    /\ res.status = 429
    /\ \E s \in Slots : req[s].pc \in StoreCalls
    /\ rl.path = "exceeded"
    /\ AdmittedSince(admitLog, rl.ip, rateLimitState[rl.ip].windowStart) = 10

\* (checked under SpecLimiter)

\* C19: with request times that never decrease, the time at which an entry
\* was created or last had its count incremented lies in
\* [windowStart, windowStart + 10 seconds], in every reachable state.
C19_WindowBracketsLastIncrement ==
    \A ip \in LimiterIPs : ip \in DOMAIN rateLimitState =>
        LET e == rateLimitState[ip] IN
        /\ e.windowStart <= rl.incrementedAt[ip]
        /\ rl.incrementedAt[ip] <= e.windowStart + 10000

\* C19's case: an entry's count was incremented exactly 10 seconds after its
\* window started.
C19_Witness ==
    \E ip \in LimiterIPs :
        /\ ip \in DOMAIN rateLimitState
        /\ rateLimitState[ip].count >= 2
        /\ rl.incrementedAt[ip] = rateLimitState[ip].windowStart + 10000

\* ------------------------------------------------------------ order of the samples

\* C20: samples are appended to the sorted set in non-decreasing timestamp
\* order: each appended sample has a timestamp >= that of every sample
\* appended before it, in any sequence or interleaving of invocations
\* (checked under SpecConcurrent).
C20_AppendedInTimestampOrder ==
    \A i, j \in DOMAIN appended : i < j => appended[i][1] <= appended[j][1]

\* ------------------------------------------------------------ denied requests

\* C21: the rate-limit check runs before any external call: a request the
\* limiter denies is answered 429 in the step of its check, is never in
\* flight (no fetch of the count source, no store call) and leaves the sample
\* set and lastSaveTime as they are; and a 429 is sent by no other step
\* (checked under SpecBurstConcurrent, with other invocations in flight).
C21_DeniedBeforeExternalCalls ==
    [][/\ (step' # step /\ ~rl'.allowed) =>
             /\ res'.status = 429
             /\ res'.retryAfter = rl'.retryAfterSeconds
             /\ req' = req
             /\ UNCHANGED <<playerPeaks, lastSaveTimeKey, appended>>
       /\ res'.status = 429 => (step' # step /\ ~rl'.allowed)
    ]_vars

\* C21's case: a request was denied and answered 429 while the store holds
\* samples and lastSaveTime, and an admitted invocation awaits the store.
C21_Witness ==
    /\ res.status = 429 /\ res.gate = "denied"
    /\ ~rl.allowed
    /\ playerPeaks # {} /\ lastSaveTimeKey # 0
    /\ \E s \in Slots : req[s].pc = "zadd"

\* (checked under SpecLimiter)

\* C22: a call for a client whose entry is blocked (now < blockedUntil) is
\* denied and leaves the map as it is: the entry keeps its count, windowStart
\* and blockedUntil, so calls during a block never extend it.
C22_BlockedCallLeavesEntry ==
    [][\A ip \in LimiterIPs :
         (/\ Checks(ip)
          /\ ip \in DOMAIN rateLimitState
          /\ rateLimitState[ip].blockedUntil # Null
          /\ now < rateLimitState[ip].blockedUntil) =>
            /\ ~rl'.allowed /\ rl'.blocked
            /\ rateLimitState' = rateLimitState
    ]_vars

\* C22's case: a call some time into a block was denied, and the block still
\* ends one hour after the call that started it.
C22_Witness ==
    /\ rl.path = "stillBlocked"
    /\ rl.at > rl.incrementedAt[rl.ip]
    /\ rateLimitState[rl.ip].blockedUntil = rl.incrementedAt[rl.ip] + 3600000

\* C23: in every reachable state of the limiter each stored entry has
\* 1 <= count <= 11, and its blockedUntil is set exactly when count = 11, and
\* is then the time of the 11th request (the entry's last increment) plus one
\* hour.
C23_CountAndBlockInvariant ==
    \A ip \in LimiterIPs : ip \in DOMAIN rateLimitState =>
        LET e == rateLimitState[ip] IN
        /\ 1 <= e.count /\ e.count <= 11
        /\ e.blockedUntil # Null <=> e.count = 11
        /\ e.count = 11 => e.blockedUntil = rl.incrementedAt[ip] + 3600000

\* C23's case: an entry whose 11th request came some time after its window
\* started is blocked for one hour from that request.
C23_Witness ==
    \E ip \in LimiterIPs :
        /\ ip \in DOMAIN rateLimitState
        /\ rateLimitState[ip].count = 11
        /\ rateLimitState[ip].windowStart < rl.incrementedAt[ip]
        /\ rateLimitState[ip].blockedUntil = rl.incrementedAt[ip] + 3600000

\* ------------------------------------------------------------ save order
\* (checked under Spec, where store calls fail)

\* C24: lastSaveTime is advanced only after the append of the same invocation
\* succeeded. An invocation whose zadd fails goes on to the range queries and
\* leaves lastSaveTime as it is; lastSaveTime is written only by the set of
\* an invocation, which follows its successful zadd, with that invocation's
\* time; and whenever the stored lastSaveTime is t > 0, a sample with
\* timestamp t has been appended and is in the sorted set.
C24_SavedTimeHasSample ==
    /\ [](lastSaveTimeKey # 0 =>
            /\ \E i \in DOMAIN appended : appended[i][1] = lastSaveTimeKey
            /\ \E x \in playerPeaks : x.score = lastSaveTimeKey)
    /\ [][/\ \A s \in Slots :
               (req[s].pc = "zadd" /\ req'[s].pc \notin {"zadd", "set"}) =>
                   /\ req'[s].pc = "zrange24"
                   /\ UNCHANGED <<lastSaveTimeKey, playerPeaks, appended>>
          /\ lastSaveTimeKey' # lastSaveTimeKey =>
               \E s \in Slots : /\ req[s].pc = "set" /\ GoesOn(s)
                                /\ lastSaveTimeKey' = req[s].now
         ]_vars

\* C24's case: the zadd of an invocation failed (its other store calls
\* returned) and lastSaveTime is still absent.
C24_Witness ==
    /\ res.status = 200 /\ res.degraded
    /\ ~res.getFailed /\ res.ok24 /\ res.ok7
    /\ appended = << >> /\ lastSaveTimeKey = 0

\* C24's other case: lastSaveTime was advanced to the time of an appended
\* sample by a later invocation than the first.
C24_WitnessAdvanced ==
    /\ Len(appended) = 2
    /\ lastSaveTimeKey = appended[2][1]
    /\ appended[1][1] < appended[2][1]

\* ------------------------------------------------------------ source unavailable
\* (checked under SpecConcurrent)

\* C25: an invocation in which the count source is unavailable performs no
\* store operation. Its steps are its start, which puts it at the fetch, and
\* the end of the fetch, which answers 500 from the fetch without the
\* invocation having been at a store call; both leave the sample set and
\* lastSaveTime as they are.
C25_SourceUnavailableNoStoreCall ==
    [][\A s \in Slots :
         /\ (req[s].pc = "idle" /\ req'[s].pc # "idle") =>
               /\ req'[s].pc = "fetch"
               /\ UNCHANGED <<playerPeaks, lastSaveTimeKey, appended>>
         /\ (Ends(s) /\ res'.source \in SourceFailures) =>
               /\ req[s].pc = "fetch"
               /\ res'.status = 500
               /\ ~res'.degraded /\ ~res'.ok24 /\ ~res'.ok7
               /\ UNCHANGED <<playerPeaks, lastSaveTimeKey, appended>>
    ]_vars

\* C25's case: the source answered with a non-OK status while the store holds
\* samples and lastSaveTime, and the 500 was sent.
C25_Witness ==
    /\ res.source = "notOk" /\ res.status = 500
    /\ playerPeaks # {} /\ lastSaveTimeKey # 0

=============================================================================
